---- MODULE Spec2Model ----
(***************************************************************************)
(* Model of the persisted settings registry of multipass                   *)
(* (src/src/utils/settings.cpp): Settings::get / Settings::set, the        *)
(* per-key validation of set_aux, the per-call backing-store handle, the   *)
(* registry mutex taken in checked_get / checked_set, and check_status     *)
(* with its read-open probe.                                               *)
(*                                                                         *)
(* Strings that the code transforms (setting values) are sequences of      *)
(* one-character strings, so that toLower and the alias tables are         *)
(* computed.  Setting keys are sequences of their dot-separated segments,  *)
(* so that the prefix test of file_for is computed on the first segment.   *)
(***************************************************************************)
EXTENDS Integers, Sequences, FiniteSets, TLC

\* ------------------------------------------------------------------ bounds
NumThreads == 2
MaxCalls == 2

\* ------------------------------------------------------- program constants
ENOENT == 2
EACCES == 13

daemon_root == "local"
client_root == "client"
petenv_name == <<"p","r","i","m","a","r","y">>
autostart_default == <<"t","r","u","e">>

petenv_key == <<"client", "primary-name">>
driver_key == <<"local", "driver">>
autostart_key == <<"client", "gui", "autostart">>
hotkey_key == <<"client", "gui", "hotkey">>
bridged_interface_key == <<"local", "bridged-network">>
mounts_key == <<"local", "privileged-mounts">>
winterm_key == <<"client", "apps", "windows-terminal", "profiles">>
unknown_key == <<"bogus", "key">>

daemon_file_path == "/root/.config/multipassd/multipassd.conf"
client_file_path == "${HOME}/.config/multipass/multipass.conf"
Paths == {daemon_file_path, client_file_path}

\* QSettings::Status
NoError == "NoError"
AccessError == "AccessError"
FormatError == "FormatError"

\* the texts check_status and its callers put in a PersistentSettingsException
op_read == <<"read">>
op_read_write == <<"read", "/", "write">>
format_error == <<"format", "error">>
access_error == <<"access", "error", "(consider running with an administrative role)">>

\* --------------------------------------------------------------- utilities
EmptyMap == [x \in {} |-> <<>>]
Put(m, k, v) == [x \in DOMAIN m \cup {k} |-> IF x = k THEN v ELSE m[x]]

Upper == <<"A","B","C","D","E","F","G","H","I","J","K","L","M",
           "N","O","P","Q","R","S","T","U","V","W","X","Y","Z">>
Lower == <<"a","b","c","d","e","f","g","h","i","j","k","l","m",
           "n","o","p","q","r","s","t","u","v","w","x","y","z">>
Digits == {"0","1","2","3","4","5","6","7","8","9"}
Range(s) == {s[i] : i \in DOMAIN s}
Letters == Range(Upper) \cup Range(Lower)

ToLowerChar(c) ==
    IF c \in Range(Upper) THEN Lower[CHOOSE i \in DOMAIN Upper : Upper[i] = c] ELSE c
ToUpperChar(c) ==
    IF c \in Range(Lower) THEN Upper[CHOOSE i \in DOMAIN Lower : Lower[i] = c] ELSE c
toLower(s) == [i \in 1..Len(s) |-> ToLowerChar(s[i])]

\* QString::startsWith, on the segments of a key
startsWith(k, root) == Len(k) >= 1 /\ k[1] = root

\* mp::utils::valid_hostname: letters, digits and hyphens, a letter first,
\* no hyphen last
valid_hostname(s) ==
    /\ Len(s) >= 1
    /\ s[1] \in Letters
    /\ s[Len(s)] # "-"
    /\ \A i \in 1..Len(s) : s[i] \in Letters \cup Digits \cup {"-"}

\* MP_PLATFORM.is_backend_supported
SupportedBackends == {<<"q","e","m","u">>, <<"l","x","d">>}
is_backend_supported(s) == s \in SupportedBackends

\* mp::platform::interpret_setting: the platform's rewriting of a hotkey or
\* terminal-profile value (here: the canonical capitalised rendering)
interpret_setting(k, s) ==
    [i \in 1..Len(s) |-> IF i = 1 THEN ToUpperChar(s[i]) ELSE ToLowerChar(s[i])]

\* mp::platform::default_driver / default_privileged_mounts / default_hotkey
default_driver == <<"q","e","m","u">>
default_privileged_mounts == <<"t","r","u","e">>
default_hotkey == <<"C","t","r","l","+","A","l","t","+","U">>

Platforms == {"linux", "windows"}
extra_settings_defaults(p) ==
    IF p = "windows" THEN Put(EmptyMap, winterm_key, <<"p","r","i","m","a","r","y">>)
    ELSE EmptyMap

make_defaultsBase ==
    Put(Put(Put(Put(Put(Put(EmptyMap,
        petenv_key, petenv_name),
        driver_key, default_driver),
        autostart_key, autostart_default),
        hotkey_key, default_hotkey),
        bridged_interface_key, <<>>),
        mounts_key, default_privileged_mounts)

make_defaults(p) ==
    LET extra == extra_settings_defaults(p)
    IN  [k \in DOMAIN make_defaultsBase \cup DOMAIN extra |->
            IF k \in DOMAIN extra THEN extra[k] ELSE make_defaultsBase[k]]


\* interpret_bool: lower-case, then the two alias tables, else the lower-cased text
convert_to_true == {<<"o","n">>, <<"y","e","s">>, <<"1">>}
convert_to_false == {<<"o","f","f">>, <<"n","o">>, <<"0">>}
str_true == <<"t","r","u","e">>
str_false == <<"f","a","l","s","e">>

\* interpret_bool without val.toLower()
interpret_bool_CaseSensitive(v) ==
    IF v \in convert_to_true THEN str_true
    ELSE IF v \in convert_to_false THEN str_false
    ELSE v

interpret_bool(v) ==
    LET low == toLower(v)
    IN  IF low \in convert_to_true THEN str_true
        ELSE IF low \in convert_to_false THEN str_false
        ELSE low

\* set_aux testing the normalized flag but keeping the caller's spelling
set_aux_check_FlagAsGiven(k, v) ==
    IF k = petenv_key /\ v # <<>> /\ ~valid_hostname(v)
      THEN [invalid |-> TRUE, val |-> v, why |-> "Invalid hostname"]
    ELSE IF k = driver_key /\ ~is_backend_supported(v)
      THEN [invalid |-> TRUE, val |-> v, why |-> "Invalid driver"]
    ELSE IF (k = autostart_key \/ k = mounts_key)
            /\ interpret_bool(v) # str_true /\ interpret_bool(v) # str_false
      THEN [invalid |-> TRUE, val |-> interpret_bool(v), why |-> "Invalid flag"]
    ELSE IF k = winterm_key \/ k = hotkey_key
      THEN [invalid |-> FALSE, val |-> interpret_setting(k, v), why |-> ""]
    ELSE [invalid |-> FALSE, val |-> v, why |-> ""]

\* set_aux without the !val.isEmpty() test of the petenv branch
set_aux_check_EmptyPetenvRejected(k, v) ==
    IF k = petenv_key /\ ~valid_hostname(v)
      THEN [invalid |-> TRUE, val |-> v, why |-> "Invalid hostname"]
    ELSE IF k = driver_key /\ ~is_backend_supported(v)
      THEN [invalid |-> TRUE, val |-> v, why |-> "Invalid driver"]
    ELSE IF (k = autostart_key \/ k = mounts_key)
            /\ interpret_bool(v) # str_true /\ interpret_bool(v) # str_false
      THEN [invalid |-> TRUE, val |-> interpret_bool(v), why |-> "Invalid flag"]
    ELSE IF k = winterm_key \/ k = hotkey_key
      THEN [invalid |-> FALSE, val |-> interpret_setting(k, v), why |-> ""]
    ELSE [invalid |-> FALSE,
          val |-> IF k = autostart_key \/ k = mounts_key THEN interpret_bool(v) ELSE v,
          why |-> ""]

\* set_aux without the branch that rewrites hotkey and terminal values
set_aux_check_NoInterpret(k, v) ==
    IF k = petenv_key /\ v # <<>> /\ ~valid_hostname(v)
      THEN [invalid |-> TRUE, val |-> v, why |-> "Invalid hostname"]
    ELSE IF k = driver_key /\ ~is_backend_supported(v)
      THEN [invalid |-> TRUE, val |-> v, why |-> "Invalid driver"]
    ELSE IF (k = autostart_key \/ k = mounts_key)
            /\ interpret_bool(v) # str_true /\ interpret_bool(v) # str_false
      THEN [invalid |-> TRUE, val |-> interpret_bool(v), why |-> "Invalid flag"]
    ELSE [invalid |-> FALSE,
          val |-> IF k = autostart_key \/ k = mounts_key THEN interpret_bool(v) ELSE v,
          why |-> ""]

\* set_aux without its driver branch
set_aux_check_NoDriverCheck(k, v) ==
    IF k = petenv_key /\ v # <<>> /\ ~valid_hostname(v)
      THEN [invalid |-> TRUE, val |-> v, why |-> "Invalid hostname"]
    ELSE IF (k = autostart_key \/ k = mounts_key)
            /\ interpret_bool(v) # str_true /\ interpret_bool(v) # str_false
      THEN [invalid |-> TRUE, val |-> interpret_bool(v), why |-> "Invalid flag"]
    ELSE IF k = winterm_key \/ k = hotkey_key
      THEN [invalid |-> FALSE, val |-> interpret_setting(k, v), why |-> ""]
    ELSE [invalid |-> FALSE,
          val |-> IF k = autostart_key \/ k = mounts_key THEN interpret_bool(v) ELSE v,
          why |-> ""]

\* the if / else-if chain of Settings::set_aux: whether it throws
\* InvalidSettingsException, and the value it goes on with
set_aux_check(k, v) ==
    IF k = petenv_key /\ v # <<>> /\ ~valid_hostname(v)
      THEN [invalid |-> TRUE, val |-> v, why |-> "Invalid hostname"]
    ELSE IF k = driver_key /\ ~is_backend_supported(v)
      THEN [invalid |-> TRUE, val |-> v, why |-> "Invalid driver"]
    ELSE IF (k = autostart_key \/ k = mounts_key)
            /\ interpret_bool(v) # str_true /\ interpret_bool(v) # str_false
      THEN [invalid |-> TRUE, val |-> interpret_bool(v), why |-> "Invalid flag"]
    ELSE IF k = winterm_key \/ k = hotkey_key
      THEN [invalid |-> FALSE, val |-> interpret_setting(k, v), why |-> ""]
    ELSE [invalid |-> FALSE,
          val |-> IF k = autostart_key \/ k = mounts_key THEN interpret_bool(v) ELSE v,
          why |-> ""]

\* file routing that ignores the key's prefix
file_for_AlwaysDaemon(k) == daemon_file_path

\* file_for: the backing file of a key, by its prefix
file_for(k) == IF startsWith(k, daemon_root) THEN daemon_file_path ELSE client_file_path

\* the cause tag without the FormatError test
status_tag_AlwaysAccess(status) == access_error

\* check_status: the cause tag of the exception it throws
status_tag(status) == IF status = FormatError THEN format_error ELSE access_error

\* the probe without the ENOENT exemption
exists_but_unreadable_NoEnoentCheck(probe) == probe.fail /\ probe.errno # 0

\* check_status without the probe
exists_but_unreadable_Never(probe) == FALSE

\* exists_but_unreadable: in_stream.fail() && errno && errno != ENOENT
exists_but_unreadable(probe) == probe.fail /\ probe.errno # 0 /\ probe.errno # ENOENT

\* ------------------------------------------------------- the backing store
\* WrappedQSettings::value(key, fallback)
store_value(file, k, fb) == IF k \in DOMAIN file.data THEN file.data[k] ELSE fb

\* what status() can report after the store has read its file
StatusAfterRead(file) ==
    IF file.present THEN {NoError, AccessError, FormatError} ELSE {NoError}

\* what status() can report after sync() of a pending write
StatusAfterSync(file) ==
    IF file.present THEN {NoError, AccessError, FormatError} ELSE {NoError, AccessError}

\* WrappedQSettings::sync: the pending write reaches the file when the store
\* reports no error
store_sync(file, pending, status) ==
    IF status = NoError /\ pending # <<>>
      THEN [present |-> TRUE, data |-> Put(file.data, pending[1], pending[2])]
      ELSE file

\* MP_FILEOPS.open(in_stream, filename, in): the stream state and errno it leaves
ProbeOutcomes(file) ==
    IF file.present
      THEN {[fail |-> FALSE, errno |-> 0],
            [fail |-> TRUE, errno |-> EACCES],
            [fail |-> TRUE, errno |-> 0]}
      ELSE {[fail |-> TRUE, errno |-> ENOENT]}

\* ------------------------------------------------------ the image manifest
\* a JSON object is a function from its keys; a string is a tuple of
\* characters, a file location a tuple of tokens; a missing member reads as
\* the empty string or the empty object (QJsonValue::toString / toObject)
Member(obj, k) == IF k \in DOMAIN obj THEN obj[k] ELSE <<>>
isEmpty(x) == DOMAIN x = {}

\* arch_to_manifest
arch_to_manifest ==
    [x86_64 |-> "amd64", arm |-> "armhf", arm64 |-> "arm64", i386 |-> "i386",
     power |-> "powerpc", power64 |-> "ppc64el", s390x |-> "s390x"]
arch_of(cpu) == IF cpu \in DOMAIN arch_to_manifest THEN arch_to_manifest[cpu] ELSE ""

\* the characters of version keys, in increasing code-unit order
CodeUnits == <<".", "0", "1", "2", "3", "4", "5", "6", "7", "8", "9">>
CodeUnit(c) == CHOOSE i \in DOMAIN CodeUnits : CodeUnits[i] = c

\* QString operator<: code unit by code unit, a proper prefix first
RECURSIVE QStringLess(_, _)
QStringLess(a, b) ==
    IF b = <<>> THEN FALSE
    ELSE IF a = <<>> THEN TRUE
    ELSE IF a[1] = b[1] THEN QStringLess(Tail(a), Tail(b))
    ELSE CodeUnit(a[1]) < CodeUnit(b[1])

\* QJsonObject iteration (constBegin .. constEnd): the keys in ascending order
RECURSIVE KeysInOrder(_)
KeysInOrder(ks) ==
    IF ks = {} THEN <<>>
    ELSE LET first == CHOOSE x \in ks : \A y \in ks \ {x} : QStringLess(x, y)
         IN  <<first>> \o KeysInOrder(ks \ {first})

\* the loop of latest_version_in: if (version < max_version) continue; max_version = version
RECURSIVE latest_version_loop(_, _)
latest_version_loop(ks, max_version) ==
    IF ks = <<>> THEN max_version
    ELSE IF QStringLess(Head(ks), max_version)
      THEN latest_version_loop(Tail(ks), max_version)
      ELSE latest_version_loop(Tail(ks), Head(ks))

\* a latest version chosen by length first, as numbers compare
RECURSIVE latest_version_numeric(_, _)
latest_version_numeric(ks, max_version) ==
    IF ks = <<>> THEN max_version
    ELSE IF \/ Len(Head(ks)) < Len(max_version)
            \/ Len(Head(ks)) = Len(max_version) /\ QStringLess(Head(ks), max_version)
      THEN latest_version_numeric(Tail(ks), max_version)
      ELSE latest_version_numeric(Tail(ks), Head(ks))
latest_version_in_Numeric(versions) ==
    latest_version_numeric(KeysInOrder(DOMAIN versions), <<>>)

\* latest_version_in
latest_version_in(versions) == latest_version_loop(KeysInOrder(DOMAIN versions), <<>>)

\* QString::split(","): the parts between the separators, empty parts kept
RECURSIVE split(_, _)
split(s, sep) ==
    IF \A i \in DOMAIN s : s[i] # sep THEN <<s>>
    ELSE LET i == CHOOSE j \in DOMAIN s : s[j] = sep /\ \A k \in 1..(j - 1) : s[k] # sep
         IN  <<SubSeq(s, 1, i - 1)>> \o split(SubSeq(s, i + 1, Len(s)), sep)

\* QFileInfo::fileName / QFileInfo::path of a location
LastSlash(loc) ==
    IF \A i \in DOMAIN loc : loc[i] # "/" THEN 0
    ELSE CHOOSE i \in DOMAIN loc : loc[i] = "/" /\ \A k \in (i + 1)..Len(loc) : loc[k] # "/"
fileName(loc) == SubSeq(loc, LastSlash(loc) + 1, Len(loc))
path(loc) ==
    IF LastSlash(loc) = 0 THEN (IF loc = <<>> THEN <<>> ELSE <<".">>)
    ELSE SubSeq(loc, 1, LastSlash(loc) - 1)
remove(s, tok) == SelectSeq(s, LAMBDA x : x # tok)

\* derive_unpacked_file_path_prefix_from
derive_unpacked_file_path_prefix_from(image_location) ==
    path(image_location) \o <<"/unpacked/">>
        \o remove(remove(fileName(image_location), "-disk1.img"), ".img")

\* fromJson: version_string == latest_version ? product_aliases : QStringList()
record_aliases(version_string, latest_version, product_aliases) ==
    IF version_string = latest_version THEN product_aliases ELSE <<>>

\* fromJson, the body of the versions loop after the driver is read: the
\* VMImageInfo pushed for one version, or skip when the lxd image has no checksum
image_record(product, version_string, latest_version, driver) ==
    LET items == Member(product.versions[version_string], "items")
        product_aliases == split(product.aliases, ",")
        aliases == record_aliases(version_string, latest_version, product_aliases)
    IN  IF driver = <<"l","x","d">>
          THEN LET image == Member(items, "lxd.tar.xz")
                   sha256 ==
                     IF "combined_disk-kvm-img_sha256" \in DOMAIN image
                       THEN image["combined_disk-kvm-img_sha256"]
                     ELSE IF "combined_disk1-img_sha256" \in DOMAIN image
                       THEN image["combined_disk1-img_sha256"]
                     ELSE <<>>
               IN  [skip |-> sha256 = <<>>,
                    info |-> [aliases |-> aliases, os |-> "Ubuntu", release |-> product.release,
                              image_location |-> <<>>, kernel_location |-> <<>>,
                              initrd_location |-> <<>>, id |-> sha256,
                              version |-> version_string, size |-> -1, verify |-> TRUE]]
          ELSE LET image == Member(items, "disk1.img")
                   image_location == Member(image, "path")
                   prefix == derive_unpacked_file_path_prefix_from(image_location)
               IN  [skip |-> FALSE,
                    info |-> [aliases |-> aliases, os |-> "Ubuntu", release |-> product.release,
                              image_location |-> image_location,
                              kernel_location |-> prefix \o <<"-vmlinuz-generic">>,
                              initrd_location |-> prefix \o <<"-initrd-generic">>,
                              id |-> Member(image, "sha256"),
                              version |-> version_string,
                              size |-> IF "size" \in DOMAIN image THEN image["size"] ELSE -1,
                              verify |-> TRUE]]

\* fromJson, the loops that fill map: map[product.id] = &product, then
\* map[alias] = &product for each alias; a pointer is the record's index
RECURSIVE map_aliases(_, _, _)
map_aliases(m, aliases, i) ==
    IF aliases = <<>> THEN m
    ELSE map_aliases(Put(m, Head(aliases), i), Tail(aliases), i)
RECURSIVE map_products(_, _, _)
map_products(m, ps, i) ==
    IF i > Len(ps) THEN m
    ELSE map_products(map_aliases(Put(m, ps[i].id, i), ps[i].aliases, i), ps, i + 1)

\* ------------------------------------------------------------------- state
VARIABLES
    defaults,   \* Settings::defaults
    files,      \* the two backing files: path -> [present, data]
    mutex,      \* Settings::mutex: 0 when free, else the holder
    pc,         \* per thread: where its get / set call stands
    op,         \* per thread: "get" | "set" | "none"
    key,        \* per thread: the key argument
    arg,        \* per thread: the val argument as the caller gave it
    val,        \* per thread: set_aux's working copy of val
    fallback,   \* per thread: default_ret of get
    handle,     \* per thread: the WrappedQSettings of the call
    outcome,    \* per thread: how the call ends
    ret,        \* per thread: the value get returns
    events,     \* per thread: the store and probe calls of the call, in order
    before,     \* per thread: the backing files when the call began
    probe,      \* per thread: what the read-open probe of the call found
    lastSet,    \* per key: the latest set call that reached the store (argument, success)
    calls,      \* calls begun so far
    manifest,   \* fromJson: the host CPU and the parsed document's products
    parser,     \* fromJson: where the call stands in its loops
    products,   \* fromJson: std::vector<VMImageInfo> products
    map,        \* fromJson: QMap<QString, const VMImageInfo*> map (key -> index)
    result      \* fromJson: how the call ends

\* the settings registry, and the manifest reader
svars == <<defaults, files, mutex, pc, op, key, arg, val, fallback, handle,
           outcome, ret, events, before, probe, lastSet, calls>>
mvars == <<manifest, parser, products, map, result>>
vars == <<svars, mvars>>

Threads == 1..NumThreads
SeqThreads == {1}

NoFile == [present |-> FALSE, data |-> EmptyMap]
EmptyFile == [present |-> TRUE, data |-> EmptyMap]
NoFiles == [p \in Paths |-> NoFile]
NoProbe == [run |-> FALSE, fail |-> FALSE, errno |-> 0]
NoHandle == [open |-> FALSE, file |-> "", format |-> "", codec |-> "",
             status |-> NoError, pending |-> <<>>]
NoOutcome == [kind |-> "none", op |-> <<>>, detail |-> <<>>]
Success == [kind |-> "ok", op |-> <<>>, detail |-> <<>>]
UnrecognizedSettingException == [kind |-> "UnrecognizedSetting", op |-> <<>>, detail |-> <<>>]
InvalidSettingsException(why) == [kind |-> "InvalidSetting", op |-> <<>>, detail |-> <<why>>]
PersistentSettingsException(o, d) == [kind |-> "PersistentSettingsException", op |-> o, detail |-> d]

\* ------------------------------------------------------------------ inputs
GetInputs ==
    {[op |-> "get", key |-> k, val |-> <<>>] :
        k \in {petenv_key, driver_key, autostart_key, hotkey_key,
               bridged_interface_key, mounts_key, winterm_key, unknown_key}}
SetOf(k, vs) == {[op |-> "set", key |-> k, val |-> v] : v \in vs}
SetInputs ==
    SetOf(petenv_key, {<<>>, <<"f","o","o">>, <<"a"," ","b","!">>})
    \cup SetOf(driver_key, {<<"l","x","d">>, <<"b","o","g","u","s">>})
    \cup SetOf(autostart_key, {<<"O","N">>, <<"n","o","p","e">>})
    \cup SetOf(mounts_key, {<<"Y","E","S">>, <<"o","f","f">>, <<"T","r","u","e">>, <<"N","o","p","e">>})
    \cup SetOf(bridged_interface_key, {<<"e","t","h","0">>, <<"O","N">>})
    \cup SetOf(hotkey_key, {<<"c","t","r","l","+","u">>})
    \cup SetOf(winterm_key, {<<"n","o","n","e">>})
    \cup SetOf(unknown_key, {<<"x">>})
AllInputs == GetInputs \cup SetInputs

ConcInputs ==
    {[op |-> "get", key |-> mounts_key, val |-> <<>>]}
    \cup SetOf(mounts_key, {<<"Y","E","S">>, <<"o","f","f">>})
    \cup SetOf(petenv_key, {<<"f","o","o">>})

\* two callers' worth of work on one key: a reader and a writer
LiveInputs ==
    {[op |-> "get", key |-> mounts_key, val |-> <<>>]}
    \cup SetOf(mounts_key, {<<"o","f","f">>})

\* the items of one version: a disk image, an lxd image, both, or none
DiskImage(sha) ==
    [path |-> <<"server", "/", "release", "/", "ubuntu", "-disk1.img">>,
     sha256 |-> sha, size |-> Len(sha)]
LxdImage(sha) == Put(EmptyMap, "combined_disk1-img_sha256", sha)
LxdKvmImage(sha) == Put(LxdImage(sha), "combined_disk-kvm-img_sha256", sha \o <<"k">>)
ItemsOf(choice, sha) ==
    CASE choice = "none" -> <<>>
      [] choice = "disk" -> Put(EmptyMap, "disk1.img", DiskImage(sha))
      [] choice = "lxd" -> Put(EmptyMap, "lxd.tar.xz", LxdImage(sha))
      [] choice = "both" -> Put(Put(EmptyMap, "disk1.img", DiskImage(sha)),
                                "lxd.tar.xz", LxdKvmImage(sha))
ItemChoices == {"absent", "none", "disk", "lxd", "both"}

\* a product with up to two versions, "9" and "10"; the checksum of "10" may
\* read like an alias
ProductA(aliases, c9, c10, sha10) ==
    [release |-> "a", arch |-> "amd64", aliases |-> aliases,
     versions |->
        [k \in {x \in {<<"9">>, <<"1","0">>} :
                    IF x = <<"9">> THEN c9 # "absent" ELSE c10 # "absent"} |->
            [items |-> IF k = <<"9">> THEN ItemsOf(c9, <<"f","9">>)
                                      ELSE ItemsOf(c10, sha10)]]]
ProductsA ==
    {ProductA(al, c9, c10, sha) :
        al \in {<<>>, <<"l">>, <<"l", ",", "d">>},
        c9 \in ItemChoices, c10 \in ItemChoices, sha \in {<<"f","1">>, <<"l">>}}

\* a product of one version, for the host's architecture or another
ProductB(arch) ==
    [release |-> "b", arch |-> arch, aliases |-> <<"l">>,
     versions |-> [k \in {<<"5">>} |-> [items |-> ItemsOf("both", <<"f","5">>)]]]
ProductsB == {ProductB(arch) : arch \in {"amd64", "arm64"}}

\* manifest["products"], its members in key order
Manifests ==
    {<<>>} \cup {<<a>> : a \in ProductsA} \cup {<<b>> : b \in ProductsB}
           \cup {<<a, b>> : a \in ProductsA, b \in ProductsB}
HostCpus == {"x86_64", "riscv64"}

\* callers of the two boolean flags: aliases, a rejected value, a read
FlagInputs ==
    {[op |-> "get", key |-> autostart_key, val |-> <<>>]}
    \cup SetOf(mounts_key, {<<"Y","E","S">>, <<"N","o","p","e">>})
    \cup SetOf(autostart_key, {<<"O","N">>})

\* -------------------------------------------------------------------- Init
\* fromJson not called: no loop position, nothing built
NotParsing == [pc |-> "idle", i |-> 0, todo |-> <<>>, latest_version |-> <<>>]
NoManifest == [cpu |-> "x86_64", products |-> <<>>]

\* the registry after construction, no call begun
Constructed ==
    /\ mutex = 0
    /\ pc = [t \in Threads |-> "idle"]
    /\ op = [t \in Threads |-> "none"]
    /\ key = [t \in Threads |-> <<>>]
    /\ arg = [t \in Threads |-> <<>>]
    /\ val = [t \in Threads |-> <<>>]
    /\ fallback = [t \in Threads |-> <<>>]
    /\ handle = [t \in Threads |-> NoHandle]
    /\ outcome = [t \in Threads |-> NoOutcome]
    /\ ret = [t \in Threads |-> <<>>]
    /\ events = [t \in Threads |-> <<>>]
    /\ before = [t \in Threads |-> NoFiles]
    /\ probe = [t \in Threads |-> NoProbe]
    /\ lastSet = EmptyMap
    /\ calls = 0
    /\ parser = NotParsing
    /\ products = <<>>
    /\ map = EmptyMap
    /\ result = NoOutcome

\* either platform; each backing file absent, or present with nothing stored
Init ==
    /\ defaults \in {make_defaults(p) : p \in Platforms}
    /\ files \in [Paths -> {NoFile, EmptyFile}]
    /\ Constructed
    /\ manifest = NoManifest

\* backing files written by hand, holding values no set would have accepted
EditedDaemonFile ==
    [present |-> TRUE,
     data |-> Put(Put(EmptyMap, mounts_key, <<"N","o","p","e">>),
                  driver_key, <<"b","o","g","u","s">>)]
EditedClientFile ==
    [present |-> TRUE, data |-> Put(EmptyMap, petenv_key, <<"a"," ","b","!">>)]

InitEdited ==
    /\ defaults \in {make_defaults(p) : p \in Platforms}
    /\ files \in {f \in [Paths -> {NoFile, EditedDaemonFile, EditedClientFile}] :
                    /\ f[daemon_file_path] = EditedDaemonFile
                    /\ f[client_file_path] \in {NoFile, EditedClientFile}}
    /\ Constructed
    /\ manifest = NoManifest

\* a daemon file in which the driver was set to lxd
LxdDaemonFile == [present |-> TRUE, data |-> Put(EmptyMap, driver_key, <<"l","x","d">>)]

\* fromJson about to be called on some manifest, the driver left at its
\* default or set to lxd
InitManifest ==
    /\ defaults = make_defaults("linux")
    /\ files \in {f \in [Paths -> {NoFile, LxdDaemonFile}] : f[client_file_path] = NoFile}
    /\ Constructed
    /\ manifest \in [cpu : HostCpus, products : Manifests]

\* manifests of one product with two versions, each with a disk image
ConcManifests ==
    {<<ProductA(<<"l">>, c9, c10, <<"f","1">>)>> : c9 \in {"disk", "both"}, c10 \in {"disk", "both"}}

\* the driver being set to lxd by another thread
DriverSets == SetOf(driver_key, {<<"l","x","d">>})

\* fromJson about to be called on a fresh installation
InitManifestConc ==
    /\ defaults = make_defaults("linux")
    /\ files = NoFiles
    /\ Constructed
    /\ manifest \in [cpu : {"x86_64"}, products : ConcManifests]

\* a fresh installation: no backing file yet
InitConc ==
    /\ defaults = make_defaults("linux")
    /\ files = NoFiles
    /\ Constructed
    /\ manifest = NoManifest


\* ----------------------------------------------------------------- actions
\* Settings::keys
keys == DOMAIN defaults

\* Settings::get_default: defaults.at(key) finds the key
recognized(k) == k \in keys

\* the operation check_status is told by checked_get / checked_set
attempted_operation(o) == IF o = "get" THEN op_read ELSE op_read_write

\* a caller enters Settings::get(key) or Settings::set(key, val)
Call(t, I) ==
    /\ pc[t] = "idle"
    /\ calls < MaxCalls
    /\ \E in \in I :
        /\ op' = [op EXCEPT ![t] = in.op]
        /\ key' = [key EXCEPT ![t] = in.key]
        /\ arg' = [arg EXCEPT ![t] = in.val]
        /\ val' = [val EXCEPT ![t] = in.val]
    /\ before' = [before EXCEPT ![t] = files]
    /\ calls' = calls + 1
    /\ pc' = [pc EXCEPT ![t] = "get_default"]
    /\ UNCHANGED <<defaults, files, mutex, fallback, handle, outcome, ret, events,
                   probe, lastSet>>

\* Settings::set without its get_default(key) call
GetDefault_SetUnchecked(t) ==
    /\ pc[t] = "get_default"
    /\ IF op[t] = "set" \/ recognized(key[t])
         THEN /\ fallback' = [fallback EXCEPT ![t] = IF op[t] = "get" THEN defaults[key[t]] ELSE <<>>]
              /\ pc' = [pc EXCEPT ![t] = IF op[t] = "get" THEN "open" ELSE "set_aux"]
              /\ UNCHANGED outcome
         ELSE /\ outcome' = [outcome EXCEPT ![t] = UnrecognizedSettingException]
              /\ pc' = [pc EXCEPT ![t] = "ret"]
              /\ UNCHANGED fallback
    /\ UNCHANGED <<defaults, files, mutex, op, key, arg, val, handle, ret, events,
                   before, probe, lastSet, calls>>

\* get_default(key): UnrecognizedSettingException unless the key has a default
GetDefault(t) ==
    /\ pc[t] = "get_default"
    /\ IF recognized(key[t])
         THEN /\ fallback' = [fallback EXCEPT ![t] = IF op[t] = "get" THEN defaults[key[t]] ELSE <<>>]
              /\ pc' = [pc EXCEPT ![t] = IF op[t] = "get" THEN "open" ELSE "set_aux"]
              /\ UNCHANGED outcome
         ELSE /\ outcome' = [outcome EXCEPT ![t] = UnrecognizedSettingException]
              /\ pc' = [pc EXCEPT ![t] = "ret"]
              /\ UNCHANGED fallback
    /\ UNCHANGED <<defaults, files, mutex, op, key, arg, val, handle, ret, events,
                   before, probe, lastSet, calls>>

\* set_aux, up to the store: validation and rewriting of val
SetAux(t) ==
    /\ pc[t] = "set_aux"
    /\ LET r == set_aux_check(key[t], val[t])
       IN  /\ val' = [val EXCEPT ![t] = r.val]
           /\ IF r.invalid
                THEN /\ outcome' = [outcome EXCEPT ![t] = InvalidSettingsException(r.why)]
                     /\ pc' = [pc EXCEPT ![t] = "ret"]
                ELSE /\ pc' = [pc EXCEPT ![t] = "open"]
                     /\ UNCHANGED outcome
    /\ UNCHANGED <<defaults, files, mutex, op, key, arg, fallback, handle, ret, events,
                   before, probe, lastSet, calls>>

\* persistent_settings(key): a new store handle on the key's file, codec set
PersistentSettings(t) ==
    /\ pc[t] = "open"
    /\ handle' = [handle EXCEPT ![t] =
                    [open |-> TRUE, file |-> file_for(key[t]), format |-> "IniFormat",
                     codec |-> "UTF-8", status |-> NoError, pending |-> <<>>]]
    /\ events' = [events EXCEPT ![t] = @ \o <<"make_wrapped_qsettings", "setIniCodec">>]
    /\ pc' = [pc EXCEPT ![t] = "lock"]
    /\ UNCHANGED <<defaults, files, mutex, op, key, arg, val, fallback, outcome, ret,
                   before, probe, lastSet, calls>>

\* a lock that does not wait for the holder
Lock_NoWait(t) ==
    /\ pc[t] = "lock"
    /\ mutex' = t
    /\ pc' = [pc EXCEPT ![t] = IF op[t] = "get" THEN "value" ELSE "setValue"]
    /\ UNCHANGED <<defaults, files, op, key, arg, val, fallback, handle, outcome, ret,
                   events, before, probe, lastSet, calls>>

\* a lock that serializes the daemon file only
Lock_DaemonScopeOnly(t) ==
    /\ pc[t] = "lock"
    /\ handle[t].file = daemon_file_path => mutex = 0
    /\ mutex' = t
    /\ pc' = [pc EXCEPT ![t] = IF op[t] = "get" THEN "value" ELSE "setValue"]
    /\ UNCHANGED <<defaults, files, op, key, arg, val, fallback, handle, outcome, ret,
                   events, before, probe, lastSet, calls>>

\* std::lock_guard lock{mutex} at the top of checked_get / checked_set
Lock(t) ==
    /\ pc[t] = "lock"
    /\ mutex = 0
    /\ mutex' = t
    /\ pc' = [pc EXCEPT ![t] = IF op[t] = "get" THEN "value" ELSE "setValue"]
    /\ UNCHANGED <<defaults, files, op, key, arg, val, fallback, handle, outcome, ret,
                   events, before, probe, lastSet, calls>>

\* checked_get returning the fallback without asking the store
Value_IgnoresStore(t) ==
    /\ pc[t] = "value"
    /\ \E st \in StatusAfterRead(files[handle[t].file]) :
        handle' = [handle EXCEPT ![t].status = st]
    /\ ret' = [ret EXCEPT ![t] = fallback[t]]
    /\ events' = [events EXCEPT ![t] = Append(@, "value")]
    /\ pc' = [pc EXCEPT ![t] = "status"]
    /\ UNCHANGED <<defaults, files, mutex, op, key, arg, val, fallback, outcome,
                   before, probe, lastSet, calls>>

\* a read that puts the stored value through the set-time rule of its key
Value_Validated(t) ==
    /\ pc[t] = "value"
    /\ \E st \in StatusAfterRead(files[handle[t].file]) :
        handle' = [handle EXCEPT ![t].status = st]
    /\ ret' = [ret EXCEPT ![t] =
          LET stored == store_value(files[handle[t].file], key[t], fallback[t])
              chk == set_aux_check(key[t], stored)
          IN  IF chk.invalid THEN fallback[t] ELSE chk.val]
    /\ events' = [events EXCEPT ![t] = Append(@, "value")]
    /\ pc' = [pc EXCEPT ![t] = "status"]
    /\ UNCHANGED <<defaults, files, mutex, op, key, arg, val, fallback, outcome,
                   before, probe, lastSet, calls>>

\* checked_get: ret = settings.value(key, fallback).toString()
Value(t) ==
    /\ pc[t] = "value"
    /\ \E st \in StatusAfterRead(files[handle[t].file]) :
        handle' = [handle EXCEPT ![t].status = st]
    /\ ret' = [ret EXCEPT ![t] = store_value(files[handle[t].file], key[t], fallback[t])]
    /\ events' = [events EXCEPT ![t] = Append(@, "value")]
    /\ pc' = [pc EXCEPT ![t] = "status"]
    /\ UNCHANGED <<defaults, files, mutex, op, key, arg, val, fallback, outcome,
                   before, probe, lastSet, calls>>

\* set_aux handing the caller's val, not its rewritten copy, to checked_set
SetValue_RawArg(t) ==
    /\ pc[t] = "setValue"
    /\ handle' = [handle EXCEPT ![t].pending = <<key[t], arg[t]>>]
    /\ events' = [events EXCEPT ![t] = Append(@, "setValue")]
    /\ pc' = [pc EXCEPT ![t] = "sync"]
    /\ UNCHANGED <<defaults, files, mutex, op, key, arg, val, fallback, outcome, ret,
                   before, probe, lastSet, calls>>

\* checked_set: settings.setValue(key, val)
SetValue(t) ==
    /\ pc[t] = "setValue"
    /\ handle' = [handle EXCEPT ![t].pending = <<key[t], val[t]>>]
    /\ events' = [events EXCEPT ![t] = Append(@, "setValue")]
    /\ pc' = [pc EXCEPT ![t] = "sync"]
    /\ UNCHANGED <<defaults, files, mutex, op, key, arg, val, fallback, outcome, ret,
                   before, probe, lastSet, calls>>

\* checked_set without the flush
Sync_NoFlush(t) ==
    /\ pc[t] = "sync"
    /\ pc' = [pc EXCEPT ![t] = "status"]
    /\ UNCHANGED <<defaults, files, mutex, op, key, arg, val, fallback, handle, outcome,
                   ret, events, before, probe, lastSet, calls>>

\* checked_set: settings.sync()
Sync(t) ==
    /\ pc[t] = "sync"
    /\ \E st \in StatusAfterSync(files[handle[t].file]) :
        /\ files' = [files EXCEPT ![handle[t].file] = store_sync(@, handle[t].pending, st)]
        /\ handle' = [handle EXCEPT ![t].status = st,
                                    ![t].pending = IF st = NoError THEN <<>> ELSE @]
    /\ events' = [events EXCEPT ![t] = Append(@, "sync")]
    /\ pc' = [pc EXCEPT ![t] = "status"]
    /\ UNCHANGED <<defaults, mutex, op, key, arg, val, fallback, outcome, ret,
                   before, probe, lastSet, calls>>

\* check_status without the file probe: if (status) throw
CheckStatus_NoProbe(t) ==
    /\ pc[t] = "status"
    /\ events' = [events EXCEPT ![t] = Append(@, "status")]
    /\ outcome' = [outcome EXCEPT ![t] =
          IF handle[t].status # NoError
            THEN PersistentSettingsException(attempted_operation(op[t]),
                                             status_tag(handle[t].status))
            ELSE Success]
    /\ pc' = [pc EXCEPT ![t] = "unlock"]
    /\ UNCHANGED <<defaults, files, mutex, op, key, arg, val, fallback, handle, ret,
                   before, probe, lastSet, calls>>

\* check_status: auto status = settings.status(); if (status || ...) throw
CheckStatus(t) ==
    /\ pc[t] = "status"
    /\ events' = [events EXCEPT ![t] = Append(@, "status")]
    /\ IF handle[t].status # NoError
         THEN /\ outcome' = [outcome EXCEPT ![t] =
                    PersistentSettingsException(attempted_operation(op[t]),
                                                status_tag(handle[t].status))]
              /\ pc' = [pc EXCEPT ![t] = "unlock"]
         ELSE /\ pc' = [pc EXCEPT ![t] = "probe"]
              /\ UNCHANGED outcome
    /\ UNCHANGED <<defaults, files, mutex, op, key, arg, val, fallback, handle, ret,
                   before, probe, lastSet, calls>>

\* check_status: ... || exists_but_unreadable(settings.fileName())
ExistsButUnreadable(t) ==
    /\ pc[t] = "probe"
    /\ \E p \in ProbeOutcomes(files[handle[t].file]) :
        /\ probe' = [probe EXCEPT ![t] = [run |-> TRUE, fail |-> p.fail, errno |-> p.errno]]
        /\ outcome' = [outcome EXCEPT ![t] =
              IF exists_but_unreadable(p)
                THEN PersistentSettingsException(attempted_operation(op[t]),
                                                 status_tag(handle[t].status))
                ELSE Success]
    /\ events' = [events EXCEPT ![t] = @ \o <<"fileName", "open">>]
    /\ pc' = [pc EXCEPT ![t] = "unlock"]
    /\ UNCHANGED <<defaults, files, mutex, op, key, arg, val, fallback, handle, ret,
                   before, lastSet, calls>>

\* a lock that is left held when check_status throws
Unlock_KeptOnThrow(t) ==
    /\ pc[t] = "unlock"
    /\ mutex' = IF outcome[t] = Success THEN 0 ELSE mutex
    /\ pc' = [pc EXCEPT ![t] = "ret"]
    /\ UNCHANGED <<defaults, files, op, key, arg, val, fallback, handle, outcome, ret,
                   events, before, probe, lastSet, calls>>

\* the lock_guard leaves scope: checked_get / checked_set returns or throws
Unlock(t) ==
    /\ pc[t] = "unlock"
    /\ mutex' = 0
    /\ pc' = [pc EXCEPT ![t] = "ret"]
    /\ UNCHANGED <<defaults, files, op, key, arg, val, fallback, handle, outcome, ret,
                   events, before, probe, lastSet, calls>>

\* a return that leaves the call's store handle alive
Return_KeepsHandle(t) ==
    /\ pc[t] = "ret"
    /\ lastSet' = IF op[t] = "set" /\ handle[t].open
                    THEN Put(lastSet, key[t], [arg |-> arg[t], ok |-> outcome[t] = Success])
                    ELSE lastSet
    /\ pc' = [pc EXCEPT ![t] = "idle"]
    /\ op' = [op EXCEPT ![t] = "none"]
    /\ key' = [key EXCEPT ![t] = <<>>]
    /\ arg' = [arg EXCEPT ![t] = <<>>]
    /\ val' = [val EXCEPT ![t] = <<>>]
    /\ fallback' = [fallback EXCEPT ![t] = <<>>]
    /\ outcome' = [outcome EXCEPT ![t] = NoOutcome]
    /\ ret' = [ret EXCEPT ![t] = <<>>]
    /\ events' = [events EXCEPT ![t] = <<>>]
    /\ before' = [before EXCEPT ![t] = NoFiles]
    /\ probe' = [probe EXCEPT ![t] = NoProbe]
    /\ UNCHANGED <<defaults, files, mutex, calls, handle>>

\* Settings::get / Settings::set leaves scope: the handle is destroyed and the
\* caller has the result or the exception
Return(t) ==
    /\ pc[t] = "ret"
    /\ lastSet' = IF op[t] = "set" /\ handle[t].open
                    THEN Put(lastSet, key[t], [arg |-> arg[t], ok |-> outcome[t] = Success])
                    ELSE lastSet
    /\ pc' = [pc EXCEPT ![t] = "idle"]
    /\ op' = [op EXCEPT ![t] = "none"]
    /\ key' = [key EXCEPT ![t] = <<>>]
    /\ arg' = [arg EXCEPT ![t] = <<>>]
    /\ val' = [val EXCEPT ![t] = <<>>]
    /\ fallback' = [fallback EXCEPT ![t] = <<>>]
    /\ handle' = [handle EXCEPT ![t] = NoHandle]
    /\ outcome' = [outcome EXCEPT ![t] = NoOutcome]
    /\ ret' = [ret EXCEPT ![t] = <<>>]
    /\ events' = [events EXCEPT ![t] = <<>>]
    /\ before' = [before EXCEPT ![t] = NoFiles]
    /\ probe' = [probe EXCEPT ![t] = NoProbe]
    /\ UNCHANGED <<defaults, files, mutex, calls>>

\* ------------------------------------------------------ the manifest reader
\* the thread that calls fromJson, and so makes its MP_SETTINGS.get calls
ParserThread == CHOOSE t \in SeqThreads : TRUE

GenericManifestException(why) == [kind |-> "GenericManifestException", op |-> <<>>, detail |-> <<why>>]
EmptyManifestException == [kind |-> "EmptyManifestException", op |-> <<>>, detail |-> <<>>]

\* the product the outer loop of fromJson is at
product_at(i) == manifest.products[i]

\* fromJson up to the products loop: no products, or no manifest name for the
\* host architecture, is a GenericManifestException
FromJson ==
    /\ parser.pc = "idle"
    /\ result = NoOutcome
    /\ IF manifest.products = <<>>
         THEN /\ result' = GenericManifestException("No products found")
              /\ parser' = [parser EXCEPT !.pc = "done"]
       ELSE IF arch_of(manifest.cpu) = ""
         THEN /\ result' = GenericManifestException("Unsupported cloud image architecture")
              /\ parser' = [parser EXCEPT !.pc = "done"]
       ELSE /\ parser' = [parser EXCEPT !.pc = "product", !.i = 1]
            /\ UNCHANGED result
    /\ UNCHANGED <<svars, manifest, products, map>>

\* the products loop without the architecture test
ForProduct_AnyArch ==
    /\ parser.pc = "product"
    /\ IF parser.i > Len(manifest.products)
         THEN parser' = [parser EXCEPT !.pc = "finish"]
       ELSE IF isEmpty(product_at(parser.i).versions)
         THEN parser' = [parser EXCEPT !.i = @ + 1]
       ELSE parser' = [parser EXCEPT
                          !.pc = "version",
                          !.latest_version = latest_version_in(product_at(parser.i).versions),
                          !.todo = KeysInOrder(DOMAIN product_at(parser.i).versions)]
    /\ UNCHANGED <<svars, manifest, products, map, result>>

\* for (const auto& value : manifest_products): skip another architecture's
\* product and a product without versions, else find the latest version
ForProduct ==
    /\ parser.pc = "product"
    /\ IF parser.i > Len(manifest.products)
         THEN parser' = [parser EXCEPT !.pc = "finish"]
       ELSE IF \/ product_at(parser.i).arch # arch_of(manifest.cpu)
               \/ isEmpty(product_at(parser.i).versions)
         THEN parser' = [parser EXCEPT !.i = @ + 1]
       ELSE parser' = [parser EXCEPT
                          !.pc = "version",
                          !.latest_version = latest_version_in(product_at(parser.i).versions),
                          !.todo = KeysInOrder(DOMAIN product_at(parser.i).versions)]
    /\ UNCHANGED <<svars, manifest, products, map, result>>

\* for (auto it = versions.constBegin(); ...): skip a version without items
ForVersion ==
    /\ parser.pc = "version"
    /\ IF parser.todo = <<>>
         THEN parser' = [parser EXCEPT !.pc = "product", !.i = @ + 1]
       ELSE IF isEmpty(Member(product_at(parser.i).versions[Head(parser.todo)], "items"))
         THEN parser' = [parser EXCEPT !.todo = Tail(@)]
       ELSE parser' = [parser EXCEPT !.pc = "get"]
    /\ UNCHANGED <<svars, manifest, products, map, result>>

\* MP_SETTINGS.get(mp::driver_key): the call enters Settings::get
GetDriver ==
    /\ parser.pc = "get"
    /\ pc[ParserThread] = "idle"
    /\ op' = [op EXCEPT ![ParserThread] = "get"]
    /\ key' = [key EXCEPT ![ParserThread] = driver_key]
    /\ arg' = [arg EXCEPT ![ParserThread] = <<>>]
    /\ val' = [val EXCEPT ![ParserThread] = <<>>]
    /\ before' = [before EXCEPT ![ParserThread] = files]
    /\ pc' = [pc EXCEPT ![ParserThread] = "get_default"]
    /\ parser' = [parser EXCEPT !.pc = "driver"]
    /\ UNCHANGED <<defaults, files, mutex, fallback, handle, outcome, ret, events,
                   probe, lastSet, calls, manifest, products, map, result>>

\* Settings::get returns into the versions loop: the record of this version is
\* pushed, or skipped; an exception of get leaves fromJson
DriverReturned ==
    /\ parser.pc = "driver"
    /\ Return(ParserThread)
    /\ IF outcome[ParserThread] = Success
         THEN LET made == image_record(product_at(parser.i), Head(parser.todo),
                                       parser.latest_version, ret[ParserThread])
              IN  /\ products' = IF made.skip THEN products ELSE Append(products, made.info)
                  /\ parser' = [parser EXCEPT !.pc = "version", !.todo = Tail(@)]
                  /\ UNCHANGED result
         ELSE /\ result' = outcome[ParserThread]
              /\ parser' = [parser EXCEPT !.pc = "done"]
              /\ UNCHANGED products
    /\ UNCHANGED <<manifest, map>>

\* after the loops: no record is an EmptyManifestException, else the map is
\* filled and the manifest returned
Finish ==
    /\ parser.pc = "finish"
    /\ IF products = <<>>
         THEN result' = EmptyManifestException /\ UNCHANGED map
         ELSE result' = Success /\ map' = map_products(EmptyMap, products, 1)
    /\ parser' = [parser EXCEPT !.pc = "done"]
    /\ UNCHANGED <<svars, manifest, products>>

\* ---------------------------------------------------------- specifications
\* one caller thread, every key and value class
Next ==
    \/ \E t \in SeqThreads : Call(t, AllInputs) /\ UNCHANGED mvars
    \/ \E t \in SeqThreads : GetDefault(t) /\ UNCHANGED mvars
    \/ \E t \in SeqThreads : SetAux(t) /\ UNCHANGED mvars
    \/ \E t \in SeqThreads : PersistentSettings(t) /\ UNCHANGED mvars
    \/ \E t \in SeqThreads : Lock(t) /\ UNCHANGED mvars
    \/ \E t \in SeqThreads : Value(t) /\ UNCHANGED mvars
    \/ \E t \in SeqThreads : SetValue(t) /\ UNCHANGED mvars
    \/ \E t \in SeqThreads : Sync(t) /\ UNCHANGED mvars
    \/ \E t \in SeqThreads : CheckStatus(t) /\ UNCHANGED mvars
    \/ \E t \in SeqThreads : ExistsButUnreadable(t) /\ UNCHANGED mvars
    \/ \E t \in SeqThreads : Unlock(t) /\ UNCHANGED mvars
    \/ \E t \in SeqThreads : Return(t) /\ UNCHANGED mvars

Spec == Init /\ [][Next]_vars

\* NumThreads caller threads on one key of each scope
NextConc ==
    \/ \E t \in Threads : Call(t, ConcInputs) /\ UNCHANGED mvars
    \/ \E t \in Threads : GetDefault(t) /\ UNCHANGED mvars
    \/ \E t \in Threads : SetAux(t) /\ UNCHANGED mvars
    \/ \E t \in Threads : PersistentSettings(t) /\ UNCHANGED mvars
    \/ \E t \in Threads : Lock(t) /\ UNCHANGED mvars
    \/ \E t \in Threads : Value(t) /\ UNCHANGED mvars
    \/ \E t \in Threads : SetValue(t) /\ UNCHANGED mvars
    \/ \E t \in Threads : Sync(t) /\ UNCHANGED mvars
    \/ \E t \in Threads : CheckStatus(t) /\ UNCHANGED mvars
    \/ \E t \in Threads : ExistsButUnreadable(t) /\ UNCHANGED mvars
    \/ \E t \in Threads : Unlock(t) /\ UNCHANGED mvars
    \/ \E t \in Threads : Return(t) /\ UNCHANGED mvars

SpecConc == InitConc /\ [][NextConc]_vars

\* NumThreads caller threads on the two boolean flags
NextFlags ==
    \/ \E t \in Threads : Call(t, FlagInputs) /\ UNCHANGED mvars
    \/ \E t \in Threads : GetDefault(t) /\ UNCHANGED mvars
    \/ \E t \in Threads : SetAux(t) /\ UNCHANGED mvars
    \/ \E t \in Threads : PersistentSettings(t) /\ UNCHANGED mvars
    \/ \E t \in Threads : Lock(t) /\ UNCHANGED mvars
    \/ \E t \in Threads : Value(t) /\ UNCHANGED mvars
    \/ \E t \in Threads : SetValue(t) /\ UNCHANGED mvars
    \/ \E t \in Threads : Sync(t) /\ UNCHANGED mvars
    \/ \E t \in Threads : CheckStatus(t) /\ UNCHANGED mvars
    \/ \E t \in Threads : ExistsButUnreadable(t) /\ UNCHANGED mvars
    \/ \E t \in Threads : Unlock(t) /\ UNCHANGED mvars
    \/ \E t \in Threads : Return(t) /\ UNCHANGED mvars

SpecFlags == InitConc /\ [][NextFlags]_vars

\* one caller thread over files that were edited outside the registry
SpecEdited == InitEdited /\ [][Next]_vars

\* one thread parsing a manifest, its driver reads going through Settings::get
NextManifest ==
    \/ FromJson
    \/ ForProduct
    \/ ForVersion
    \/ GetDriver
    \/ GetDefault(ParserThread) /\ UNCHANGED mvars
    \/ PersistentSettings(ParserThread) /\ UNCHANGED mvars
    \/ Lock(ParserThread) /\ UNCHANGED mvars
    \/ Value(ParserThread) /\ UNCHANGED mvars
    \/ CheckStatus(ParserThread) /\ UNCHANGED mvars
    \/ ExistsButUnreadable(ParserThread) /\ UNCHANGED mvars
    \/ Unlock(ParserThread) /\ UNCHANGED mvars
    \/ DriverReturned
    \/ Finish

SpecManifest == InitManifest /\ [][NextManifest]_vars

\* the threads that call the registry while ParserThread reads a manifest
SetterThreads == Threads \ {ParserThread}

\* one thread parsing a manifest while the others set the driver
NextManifestConc ==
    \/ FromJson
    \/ ForProduct
    \/ ForVersion
    \/ GetDriver
    \/ GetDefault(ParserThread) /\ UNCHANGED mvars
    \/ PersistentSettings(ParserThread) /\ UNCHANGED mvars
    \/ Lock(ParserThread) /\ UNCHANGED mvars
    \/ Value(ParserThread) /\ UNCHANGED mvars
    \/ CheckStatus(ParserThread) /\ UNCHANGED mvars
    \/ ExistsButUnreadable(ParserThread) /\ UNCHANGED mvars
    \/ Unlock(ParserThread) /\ UNCHANGED mvars
    \/ DriverReturned
    \/ Finish
    \/ \E t \in SetterThreads : Call(t, DriverSets) /\ UNCHANGED mvars
    \/ \E t \in SetterThreads : GetDefault(t) /\ UNCHANGED mvars
    \/ \E t \in SetterThreads : SetAux(t) /\ UNCHANGED mvars
    \/ \E t \in SetterThreads : PersistentSettings(t) /\ UNCHANGED mvars
    \/ \E t \in SetterThreads : Lock(t) /\ UNCHANGED mvars
    \/ \E t \in SetterThreads : SetValue(t) /\ UNCHANGED mvars
    \/ \E t \in SetterThreads : Sync(t) /\ UNCHANGED mvars
    \/ \E t \in SetterThreads : CheckStatus(t) /\ UNCHANGED mvars
    \/ \E t \in SetterThreads : ExistsButUnreadable(t) /\ UNCHANGED mvars
    \/ \E t \in SetterThreads : Unlock(t) /\ UNCHANGED mvars
    \/ \E t \in SetterThreads : Return(t) /\ UNCHANGED mvars

SpecManifestConc == InitManifestConc /\ [][NextManifestConc]_vars

\* the steps a thread takes by itself once a call is under way, the lock apart
ThreadStep(t) ==
    /\ \/ GetDefault(t) \/ SetAux(t) \/ PersistentSettings(t)
       \/ Value(t) \/ SetValue(t) \/ Sync(t)
       \/ CheckStatus(t) \/ ExistsButUnreadable(t) \/ Unlock(t) \/ Return(t)
    /\ UNCHANGED mvars

\* NumThreads caller threads reading and writing one key
NextLive ==
    \/ \E t \in Threads : Call(t, LiveInputs) /\ UNCHANGED mvars
    \/ \E t \in Threads : GetDefault(t) /\ UNCHANGED mvars
    \/ \E t \in Threads : SetAux(t) /\ UNCHANGED mvars
    \/ \E t \in Threads : PersistentSettings(t) /\ UNCHANGED mvars
    \/ \E t \in Threads : Lock(t) /\ UNCHANGED mvars
    \/ \E t \in Threads : Value(t) /\ UNCHANGED mvars
    \/ \E t \in Threads : SetValue(t) /\ UNCHANGED mvars
    \/ \E t \in Threads : Sync(t) /\ UNCHANGED mvars
    \/ \E t \in Threads : CheckStatus(t) /\ UNCHANGED mvars
    \/ \E t \in Threads : ExistsButUnreadable(t) /\ UNCHANGED mvars
    \/ \E t \in Threads : Unlock(t) /\ UNCHANGED mvars
    \/ \E t \in Threads : Return(t) /\ UNCHANGED mvars

\* concurrent callers under a fair scheduler: a running thread keeps running,
\* and a thread that finds the mutex free again and again gets it; callers are
\* free to stop calling
SpecLive ==
    /\ InitConc
    /\ [][NextLive]_vars
    /\ \A t \in Threads : WF_vars(ThreadStep(t)) /\ SF_vars(Lock(t) /\ UNCHANGED mvars)


\* ================================================================== claims
\* what the claims call things
Finished(t) == pc[t] = "ret"
Mentions(text, word) == \E i \in DOMAIN text : text[i] = word
Stored(fs, k) == {<<p, fs[p].data[k]>> : p \in {q \in Paths : k \in DOMAIN fs[q].data}}

\* the normalized form of a value, by the rule table of the key classes
NormalForm(k, v) ==
    IF k \in {autostart_key, mounts_key}
      THEN IF toLower(v) \in {<<"o","n">>, <<"y","e","s">>, <<"1">>} THEN <<"t","r","u","e">>
           ELSE IF toLower(v) \in {<<"o","f","f">>, <<"n","o">>, <<"0">>} THEN <<"f","a","l","s","e">>
           ELSE toLower(v)
    ELSE IF k \in {hotkey_key, winterm_key} THEN interpret_setting(k, v)
    ELSE v

\* the values the rule of a key rejects
RuleRejects(k, v) ==
    \/ k = petenv_key /\ v # <<>> /\ ~valid_hostname(v)
    \/ k = driver_key /\ ~is_backend_supported(v)
    \/ k \in {autostart_key, mounts_key}
        /\ NormalForm(k, v) \notin {<<"t","r","u","e">>, <<"f","a","l","s","e">>}

\* C1: get(k) and set(k, v) end in UnrecognizedSetting exactly when k is not
\* in keys(); and a call on such a key opens no store handle, makes no store
\* call and no file probe, and leaves the backing files as they were.
C1_UnrecognizedIffUnknownKey ==
    \A t \in Threads :
        /\ Finished(t) =>
              ((outcome[t] = UnrecognizedSettingException) <=> (key[t] \notin keys))
        /\ (pc[t] # "idle" /\ key[t] \notin keys) =>
              /\ events[t] = <<>>
              /\ ~handle[t].open
              /\ ~probe[t].run
              /\ files = before[t]

C1_Witness ==
    \E t \in Threads :
        /\ Finished(t) /\ op[t] = "set" /\ key[t] = winterm_key
        /\ winterm_key \notin keys
        /\ outcome[t] = UnrecognizedSettingException

\* C2: set(k, v) on a recognized key with a value the key's rule rejects ends
\* in InvalidSetting with no store handle opened and no store call made, and
\* both backing files are as they were when the call began.
C2_InvalidSettingNoIO ==
    \A t \in Threads :
        (Finished(t) /\ op[t] = "set" /\ key[t] \in keys /\ RuleRejects(key[t], arg[t])) =>
            /\ outcome[t].kind = "InvalidSetting"
            /\ events[t] = <<>>
            /\ ~handle[t].open
            /\ files = before[t]

C2_Witness ==
    \E t \in Threads :
        /\ Finished(t) /\ op[t] = "set" /\ key[t] = driver_key
        /\ arg[t] = <<"b","o","g","u","s">>
        /\ outcome[t].kind = "InvalidSetting"

\* C3: a successful get(k) that follows a successful set(k, v), with no other
\* set on k reaching the store in between, returns the normalized form of v
\* (set(mounts_key, "YES") then get(mounts_key) returns "true").
C3_SetThenGetNormalized ==
    \A t \in Threads :
        (/\ Finished(t) /\ op[t] = "get" /\ outcome[t] = Success
         /\ key[t] \in DOMAIN lastSet) =>
            (lastSet[key[t]].ok =>
                /\ ret[t] = NormalForm(key[t], lastSet[key[t]].arg)
                /\ (key[t] = mounts_key /\ lastSet[key[t]].arg = <<"Y","E","S">>)
                      => ret[t] = <<"t","r","u","e">>)

C3_Witness ==
    \E t \in Threads :
        /\ Finished(t) /\ op[t] = "get" /\ key[t] = mounts_key /\ outcome[t] = Success
        /\ mounts_key \in DOMAIN lastSet
        /\ lastSet[mounts_key] = [arg |-> <<"Y","E","S">>, ok |-> TRUE]

\* C4: get(k) on a recognized key whose backing file is absent succeeds and
\* returns the default recorded for k.
C4_MissingFileGivesDefault ==
    \A t \in Threads :
        (/\ Finished(t) /\ op[t] = "get" /\ key[t] \in keys
         /\ ~before[t][file_for(key[t])].present) =>
            /\ outcome[t] = Success
            /\ ret[t] = defaults[key[t]]

C4_Witness ==
    \E t \in Threads :
        /\ Finished(t) /\ op[t] = "get" /\ key[t] = petenv_key
        /\ ~before[t][client_file_path].present
        /\ ~files[client_file_path].present


\* C5: with threads calling set on the same key concurrently, every change of
\* the value persisted for a key installs, whole, the normalized form of the
\* value of a set call in progress on that key, and touches nothing else in
\* the files: the persisted value is always one of the attempted values.
C5_PersistedIsAnAttemptedValue ==
    [][\A p \in Paths :
          files'[p] # files[p] =>
             \E t \in Threads :
                /\ op[t] = "set" /\ pc[t] = "sync" /\ pc'[t] = "status"
                /\ p = handle[t].file
                /\ \A q \in Paths \ {p} : files'[q] = files[q]
                /\ files'[p].present
                /\ DOMAIN files'[p].data = DOMAIN files[p].data \cup {key[t]}
                /\ files'[p].data[key[t]] = NormalForm(key[t], arg[t])
                /\ \A k \in DOMAIN files[p].data \ {key[t]} :
                      files'[p].data[k] = files[p].data[k]]_vars

C5_Witness ==
    \E t, u \in Threads :
        /\ t # u
        /\ op[t] = "set" /\ op[u] = "set" /\ key[t] = mounts_key /\ key[u] = mounts_key
        /\ val[t] # val[u]
        /\ Finished(t) /\ outcome[t] = Success
        /\ pc[u] \in {"lock", "setValue", "sync"}
        /\ handle[u].open
        /\ mounts_key \in DOMAIN files[daemon_file_path].data
        /\ files[daemon_file_path].data[mounts_key] = val[t]

\* the steps of checked_get / checked_set between taking and leaving the lock
InCriticalSection(t) == pc[t] \in {"value", "setValue", "sync", "status", "probe", "unlock"}
StoreIO == {"value", "setValue", "sync", "status", "fileName", "open"}

\* C6 as claimed: the store handle of a call is opened while the calling
\* thread holds the registry mutex.
C6_OpenUnderMutex ==
    [][\A t \in Threads : (~handle[t].open /\ handle'[t].open) => mutex = t]_vars

\* C6 as amended: the read or write, the flush and the status check with its
\* file probe happen while the calling thread holds the mutex, and no other
\* thread is between its lock and unlock meanwhile; the store handle is
\* opened before the mutex is taken.
C6_IOUnderMutex ==
    /\ [](\A t \in Threads :
            /\ InCriticalSection(t) =>
                  (mutex = t /\ \A u \in Threads \ {t} : ~InCriticalSection(u))
            /\ pc[t] = "lock" => (handle[t].open /\ mutex # t))
    /\ [][\A t \in Threads :
            (/\ Len(events'[t]) > Len(events[t])
             /\ events'[t][Len(events'[t])] \in StoreIO) =>
                (mutex = t /\ mutex' = t)]_vars

C6_Witness ==
    \E t, u \in Threads :
        /\ t # u
        /\ pc[t] = "sync" /\ mutex = t
        /\ pc[u] = "lock" /\ handle[u].open
        /\ handle[u].file = handle[t].file

\* C7: whenever set(k, v) ends in an error, the value persisted for k is the
\* same as when the call began.
C7_FailedSetLeavesValue ==
    \A t \in Threads :
        (Finished(t) /\ op[t] = "set" /\ outcome[t] # Success) =>
            Stored(files, key[t]) = Stored(before[t], key[t])

\* C8: a non-ok store status at the verification step ends get and set in
\* PersistentSettingsException, tagged "format error" exactly when the status
\* is FormatError and "access error" otherwise, naming "read" for get and
\* "read/write" for set.
C8_StatusErrorTagged ==
    \A t \in Threads :
        (/\ pc[t] \in {"unlock", "ret"}
         /\ Mentions(events[t], "status")
         /\ handle[t].status # NoError) =>
            /\ outcome[t].kind = "PersistentSettingsException"
            /\ (outcome[t].detail = <<"format", "error">>) <=> (handle[t].status = FormatError)
            /\ (handle[t].status # FormatError) => Mentions(outcome[t].detail, "access")
            /\ outcome[t].op = IF op[t] = "get" THEN <<"read">> ELSE <<"read", "/", "write">>
            /\ ~probe[t].run

C8_Witness ==
    \E t \in Threads :
        /\ Finished(t) /\ op[t] = "set" /\ handle[t].status = FormatError
        /\ Mentions(events[t], "status")

\* C9 as claimed: with status ok, a probe that fails for any reason other than
\* the file being absent ends the call in an access error mentioning "read";
\* a probe that succeeds or fails on absence raises nothing.
C9_ProbeFailureIsAccessError ==
    \A t \in Threads :
        (Finished(t) /\ probe[t].run /\ handle[t].status = NoError) =>
            IF probe[t].fail /\ probe[t].errno # ENOENT
              THEN /\ outcome[t].kind = "PersistentSettingsException"
                   /\ Mentions(outcome[t].detail, "access")
                   /\ Mentions(outcome[t].op, "read")
              ELSE outcome[t] = Success

\* C9 as amended: with status ok, a probe that fails with a nonzero errno
\* other than ENOENT ends the call in an access error mentioning "read"; a
\* probe that succeeds, fails with ENOENT or fails with errno zero raises
\* nothing.
C9_ProbeErrnoIsAccessError ==
    \A t \in Threads :
        (Finished(t) /\ probe[t].run /\ handle[t].status = NoError) =>
            IF probe[t].fail /\ probe[t].errno # 0 /\ probe[t].errno # ENOENT
              THEN /\ outcome[t].kind = "PersistentSettingsException"
                   /\ Mentions(outcome[t].detail, "access")
                   /\ Mentions(outcome[t].op, "read")
              ELSE outcome[t] = Success

C9_Witness ==
    \E t \in Threads :
        /\ Finished(t) /\ op[t] = "get" /\ handle[t].status = NoError
        /\ probe[t].run /\ probe[t].fail /\ probe[t].errno = EACCES

\* C10: in a set call that passes validation the store events are setValue,
\* then sync, then status: sync exactly once, and before status is consulted.
C10_SyncBeforeStatus ==
    \A t \in Threads :
        (op[t] = "set" /\ handle[t].open) =>
            LET io == SelectSeq(events[t], LAMBDA e : e \in {"setValue", "sync", "status"})
            IN  /\ io \in {<<>>, <<"setValue">>, <<"setValue", "sync">>,
                           <<"setValue", "sync", "status">>}
                /\ pc[t] \in {"probe", "unlock", "ret"} => io = <<"setValue", "sync", "status">>

C10_Witness ==
    \E t \in Threads :
        /\ Finished(t) /\ op[t] = "set" /\ handle[t].open
        /\ Mentions(events[t], "status")
        /\ handle[t].status = AccessError


\* C11: for the boolean-flag keys set normalizes the value case-insensitively
\* through the alias tables and accepts it exactly when the result is "true"
\* or "false"; what is handed to the store and persisted is the normalized
\* value; every other value ends in InvalidSetting.
C11_BoolFlagsNormalizedThenChecked ==
    \A t \in Threads :
        (op[t] = "set" /\ key[t] \in {autostart_key, mounts_key}) =>
            LET n == NormalForm(key[t], arg[t])
            IN  /\ Finished(t) =>
                     ((outcome[t].kind = "InvalidSetting")
                        <=> (n \notin {<<"t","r","u","e">>, <<"f","a","l","s","e">>}))
                /\ handle[t].open =>
                     (val[t] = n /\ n \in {<<"t","r","u","e">>, <<"f","a","l","s","e">>})
                /\ pc[t] = "sync" => handle[t].pending = <<key[t], n>>
                /\ (/\ pc[t] \in {"status", "probe", "unlock", "ret"}
                    /\ handle[t].open /\ handle[t].status = NoError) =>
                       (/\ key[t] \in DOMAIN files[handle[t].file].data
                        /\ files[handle[t].file].data[key[t]] = n)
                /\ (arg[t] = <<"O","N">> /\ handle[t].open) => val[t] = <<"t","r","u","e">>
                /\ (arg[t] = <<"N","o","p","e">> /\ Finished(t)) =>
                       outcome[t].kind = "InvalidSetting"

C11_Witness ==
    \E t \in Threads :
        /\ Finished(t) /\ op[t] = "set" /\ key[t] = autostart_key
        /\ arg[t] = <<"O","N">> /\ outcome[t] = Success
        /\ autostart_key \in DOMAIN files[client_file_path].data
        /\ files[client_file_path].data[autostart_key] = <<"t","r","u","e">>


\* the store and the file probe raise nothing in this call
HealthyCall(t) == handle[t].status = NoError /\ probe[t].run /\ ~probe[t].fail

\* C12: set(petenv_key, v) ends in InvalidSetting exactly when v is neither
\* empty nor a valid hostname, and succeeds otherwise on a healthy store;
\* set(driver_key, v) ends in InvalidSetting exactly when the platform does
\* not support v, so it succeeds only for a supported backend.
C12_PetenvAndDriverRules ==
    \A t \in Threads :
        (Finished(t) /\ op[t] = "set") =>
            /\ key[t] = petenv_key =>
                 /\ (outcome[t].kind = "InvalidSetting")
                       <=> ~(arg[t] = <<>> \/ valid_hostname(arg[t]))
                 /\ ((arg[t] = <<>> \/ valid_hostname(arg[t])) /\ HealthyCall(t))
                       => outcome[t] = Success
                 /\ arg[t] = <<>> => outcome[t].kind # "InvalidSetting"
                 /\ arg[t] = <<"a"," ","b","!">> => outcome[t].kind = "InvalidSetting"
            /\ key[t] = driver_key =>
                 /\ (outcome[t].kind = "InvalidSetting") <=> ~is_backend_supported(arg[t])
                 /\ outcome[t] = Success => is_backend_supported(arg[t])
                 /\ (is_backend_supported(arg[t]) /\ HealthyCall(t)) => outcome[t] = Success

C12_Witness ==
    \E t \in Threads :
        /\ Finished(t) /\ op[t] = "set" /\ key[t] = petenv_key
        /\ arg[t] = <<>> /\ outcome[t] = Success
        /\ petenv_key \in DOMAIN files[client_file_path].data
        /\ files[client_file_path].data[petenv_key] = <<>>


\* C13: every recognized key carries exactly one of the two prefixes and is
\* served, on get and on set alike, by the file of that prefix; a set on a
\* daemon key leaves the client file as it was, and a set on a client key
\* leaves the daemon file as it was.
C13_OneFilePerKeyByPrefix ==
    /\ \A k \in keys : (k[1] = daemon_root) # (k[1] = client_root)
    /\ \A t \in Threads :
         /\ handle[t].open =>
              /\ key[t][1] = daemon_root => handle[t].file = daemon_file_path
              /\ key[t][1] = client_root => handle[t].file = client_file_path
         /\ (op[t] = "set" /\ key[t][1] = daemon_root) =>
              files[client_file_path] = before[t][client_file_path]
         /\ (op[t] = "set" /\ key[t][1] = client_root) =>
              files[daemon_file_path] = before[t][daemon_file_path]
         /\ (op[t] = "get" /\ pc[t] # "idle") => files = before[t]

C13_Witness ==
    \E t \in Threads :
        /\ Finished(t) /\ op[t] = "set" /\ key[t] = driver_key /\ outcome[t] = Success
        /\ files[daemon_file_path] # before[t][daemon_file_path]
        /\ files[client_file_path] = before[t][client_file_path]
        /\ petenv_key \in DOMAIN files[client_file_path].data
        /\ driver_key \notin DOMAIN files[client_file_path].data


\* the threads between taking and leaving the lock
InSection == {t \in Threads : InCriticalSection(t)}

\* C14: at any moment at most one thread is in the section made of the store
\* read or write, the flush and the status check, whichever files the
\* concurrent calls are routed to; the mutex names that thread.
C14_OneThreadInSection ==
    /\ Cardinality(InSection) <= 1
    /\ \A t, u \in Threads :
         (t # u /\ InCriticalSection(t) /\ handle[u].open
               /\ handle[u].file # handle[t].file) =>
             (mutex = t /\ pc[u] \in {"lock", "ret"})

C14_Witness ==
    \E t, u \in Threads :
        /\ InCriticalSection(t) /\ handle[t].file = daemon_file_path
        /\ pc[u] = "lock" /\ handle[u].file = client_file_path
        /\ pc[t] = "probe"


\* the place of a step in the pipeline
PcRank(p) ==
    CASE p = "idle" -> 0
      [] p = "get_default" -> 1
      [] p = "set_aux" -> 2
      [] p = "open" -> 3
      [] p = "lock" -> 4
      [] p \in {"value", "setValue"} -> 5
      [] p = "sync" -> 6
      [] p = "status" -> 7
      [] p = "probe" -> 8
      [] p = "unlock" -> 9
      [] p = "ret" -> 10

TerminalOutcomes ==
    {Success, UnrecognizedSettingException}
      \cup {InvalidSettingsException(w) : w \in {"Invalid hostname", "Invalid driver", "Invalid flag"}}
      \cup {PersistentSettingsException(o, d) : o \in {op_read, op_read_write},
                                                 d \in {format_error, access_error}}

\* C15: a call moves through the pipeline in one direction only and ends with
\* exactly one of the terminal outcomes, the mutex released whatever the
\* outcome; a thread leaves the lock only by acquiring the free mutex, and
\* under a fair scheduler every call that was started finishes, so every
\* thread waiting at the lock acquires it.
C15_OnePassAndLockFreed ==
    /\ [](\A t \in Threads :
            /\ Finished(t) => (outcome[t] \in TerminalOutcomes /\ mutex # t)
            /\ ~Finished(t) => (outcome[t] = NoOutcome \/ pc[t] = "unlock")
            /\ pc[t] = "idle" => mutex # t)
    /\ [][\A t \in Threads :
            \/ pc'[t] = pc[t]
            \/ PcRank(pc'[t]) > PcRank(pc[t])
            \/ (pc[t] = "ret" /\ pc'[t] = "idle")]_vars
    /\ [][\A t \in Threads :
            (pc[t] = "lock" /\ pc'[t] # "lock") =>
                (InCriticalSection(t)' /\ mutex = 0 /\ mutex' = t)]_vars
    /\ \A t \in Threads : (pc[t] # "idle") ~> Finished(t)

C15_Witness ==
    \E t, u \in Threads :
        /\ t # u
        /\ Finished(t) /\ outcome[t].kind = "PersistentSettingsException"
        /\ InCriticalSection(u) /\ mutex = u


\* how often a step occurs in a call's trace
Count(seq, x) == Cardinality({i \in DOMAIN seq : seq[i] = x})

\* C16: a call that passes validation makes exactly one store handle, in INI
\* format and with the codec set to UTF-8 before any read or write; the handle
\* is gone when the call has ended, whatever the outcome, so a call begins
\* with no handle and opens its own.
C16_OneHandlePerCall ==
    /\ [](\A t \in Threads :
            /\ pc[t] \in {"idle", "get_default", "set_aux", "open"} => handle[t] = NoHandle
            /\ Count(events[t], "make_wrapped_qsettings") <= 1
            /\ (Finished(t) /\ outcome[t].kind \notin {"UnrecognizedSetting", "InvalidSetting"})
                  => (handle[t].open /\ Count(events[t], "make_wrapped_qsettings") = 1)
            /\ handle[t].open =>
                  /\ handle[t].format = "IniFormat" /\ handle[t].codec = "UTF-8"
                  /\ SubSeq(events[t], 1, 2) = <<"make_wrapped_qsettings", "setIniCodec">>)
    /\ [][\A t \in Threads :
            /\ (~handle[t].open /\ handle'[t].open) =>
                  /\ handle[t] = NoHandle
                  /\ handle'[t].pending = <<>> /\ handle'[t].status = NoError
                  /\ events[t] = <<>>
            /\ (handle[t].open /\ ~handle'[t].open) =>
                  (pc[t] = "ret" /\ pc'[t] = "idle" /\ handle'[t] = NoHandle)
            /\ (pc[t] = "ret" /\ pc'[t] = "idle") => handle'[t] = NoHandle]_vars

C16_Witness ==
    \E t \in Threads :
        /\ calls = 2 /\ pc[t] = "open" /\ handle[t] = NoHandle
        /\ \E k \in DOMAIN lastSet : ~lastSet[k].ok


\* the call has read the store's status
ReachedStatusCheck(t) == Count(events[t], "status") = 1

\* the probe's two steps come right after the status read
ProbeFollowsStatus(t) ==
    /\ Len(events[t]) >= 3
    /\ SubSeq(events[t], Len(events[t]) - 2, Len(events[t])) = <<"status", "fileName", "open">>

\* C17 as claimed: on every get and set that reaches status verification the
\* read-open probe of the backing file is run, after store.status() has been
\* read, whatever status the store reported.
C17_ProbeWhateverStatus ==
    \A t \in Threads :
        (Finished(t) /\ ReachedStatusCheck(t)) => (probe[t].run /\ ProbeFollowsStatus(t))

\* C17 as amended: on a get or set that reaches status verification the probe
\* is run exactly when store.status() was read as ok, and then right after
\* that read; a store status that reports an error raises the exception with
\* the file never probed.
C17_ProbeOnlyAfterOkStatus ==
    \A t \in Threads :
        /\ probe[t].run => (handle[t].status = NoError /\ ProbeFollowsStatus(t))
        /\ (Finished(t) /\ ReachedStatusCheck(t)) =>
              /\ probe[t].run <=> handle[t].status = NoError
              /\ handle[t].status # NoError =>
                    /\ outcome[t].kind = "PersistentSettingsException"
                    /\ Count(events[t], "open") = 0
        /\ (Finished(t) /\ handle[t].open) => ReachedStatusCheck(t)

C17_Witness ==
    \E t \in Threads :
        /\ Finished(t) /\ op[t] = "get" /\ ReachedStatusCheck(t)
        /\ handle[t].status = NoError
        /\ probe[t].run /\ probe[t].fail /\ probe[t].errno = EACCES
        /\ outcome[t].kind = "PersistentSettingsException"


\* C18: get changes nothing that is persisted and validates nothing: it makes
\* no setValue and no sync, both backing files stay as they were, and a get
\* that succeeds returns the stored value as it is, or the default when none
\* is stored, also when the key's set-time rule would reject that value.
C18_GetReadsOnly ==
    \A t \in Threads :
        (op[t] = "get" /\ pc[t] # "idle") =>
            /\ files = before[t]
            /\ Count(events[t], "setValue") = 0 /\ Count(events[t], "sync") = 0
            /\ handle[t].pending = <<>>
            /\ outcome[t].kind # "InvalidSetting"
            /\ (Finished(t) /\ outcome[t] = Success) =>
                  IF Stored(before[t], key[t]) = {}
                    THEN ret[t] = defaults[key[t]]
                    ELSE \E pv \in Stored(before[t], key[t]) : ret[t] = pv[2]

C18_Witness ==
    \E t \in Threads :
        /\ Finished(t) /\ op[t] = "get" /\ key[t] = mounts_key /\ outcome[t] = Success
        /\ ret[t] = <<"N","o","p","e">> /\ RuleRejects(mounts_key, ret[t])
        /\ files = before[t]


\* the keys set_aux rewrites through the platform, and the keys it has no rule for
PlatformKeys == {hotkey_key, winterm_key} \cap keys
PlainKeys == keys \ {petenv_key, driver_key, autostart_key, mounts_key, hotkey_key, winterm_key}

\* the write of the call has reached the file
Flushed(t) ==
    /\ pc[t] \in {"status", "probe", "unlock", "ret"}
    /\ handle[t].open /\ handle[t].status = NoError

\* C19: for the hotkey and terminal keys the platform has, set hands to the
\* store, and persists, the platform's interpretation of the input and checks
\* nothing more; for a
\* recognized key of no other class set never ends in InvalidSetting and
\* hands the store exactly the caller's key and value.
C19_PlatformAndPlainKeys ==
    \A t \in Threads :
        (op[t] = "set" /\ key[t] \in PlatformKeys \cup PlainKeys) =>
            LET v == IF key[t] \in PlatformKeys
                       THEN interpret_setting(key[t], arg[t]) ELSE arg[t]
            IN  /\ outcome[t].kind # "InvalidSetting"
                /\ handle[t].open => val[t] = v
                /\ pc[t] = "sync" => handle[t].pending = <<key[t], v>>
                /\ Flushed(t) => Stored(files, key[t]) = {<<handle[t].file, v>>}
                /\ pc[t] \notin {"idle", "get_default", "set_aux", "open"} => handle[t].open
                /\ (key[t] = bridged_interface_key /\ arg[t] = <<"O","N">> /\ Flushed(t))
                      => files[daemon_file_path].data[key[t]] = <<"O","N">>

C19_Witness ==
    \E t \in Threads :
        /\ Finished(t) /\ op[t] = "set" /\ key[t] = hotkey_key /\ outcome[t] = Success
        /\ arg[t] = <<"c","t","r","l","+","u">>
        /\ Stored(files, hotkey_key) = {<<client_file_path, <<"C","t","r","l","+","u">> >>}


\* the greatest of a set of version keys, by the order of the strings
LexGreatest(ks) == CHOOSE k \in ks : \A o \in ks \ {k} : QStringLess(o, k)

\* the product a record was made from, and that product's latest version
ProductOf(r) ==
    CHOOSE p \in Range(manifest.products) : p.release = r.release
LatestOf(p) == LexGreatest(DOMAIN p.versions)
IsOlderVersionOf(r, p) == r.release = p.release /\ r.version # LatestOf(p)
AliasesOf(p) == Range(split(p.aliases, ","))

\* the records carry aliases only on their product's latest version
AliasesOnLatestOnly ==
    \A i \in DOMAIN products :
        LET r == products[i]
            p == ProductOf(r)
        IN  /\ r.version \in DOMAIN p.versions
            /\ r.version = LatestOf(p) => r.aliases = split(p.aliases, ",")
            /\ r.version # LatestOf(p) => r.aliases = <<>>

RecordsOf(p, v) ==
    {i \in DOMAIN products : products[i].release = p.release /\ products[i].version = v}

\* the product is for the host's architecture
ArchMatches(p) == p.arch = arch_of(manifest.cpu)

\* the version has items, and the checksum the lxd form needs
HasItems(p, v) == DOMAIN p.versions[v].items # {}
HasLxdChecksum(p, v) ==
    /\ "lxd.tar.xz" \in DOMAIN p.versions[v].items
    /\ \E f \in {"combined_disk-kvm-img_sha256", "combined_disk1-img_sha256"} :
          /\ f \in DOMAIN p.versions[v].items["lxd.tar.xz"]
          /\ p.versions[v].items["lxd.tar.xz"][f] # <<>>

\* the driver the registry holds while the manifest is read
StoredDriver ==
    IF driver_key \in DOMAIN files[daemon_file_path].data
      THEN files[daemon_file_path].data[driver_key] ELSE defaults[driver_key]

\* C21 as claimed: the catalog has exactly one record for each product/version
\* pair of a product of the host's architecture and none for a product of
\* another architecture; when no record results fromJson fails with
\* EmptyManifestException.
C21_OneRecordPerPair ==
    /\ result = Success =>
         \A p \in Range(manifest.products) : \A v \in DOMAIN p.versions :
             Cardinality(RecordsOf(p, v)) = IF ArchMatches(p) THEN 1 ELSE 0
    /\ (parser.pc = "done" /\ products = <<>>) => result = EmptyManifestException

\* C21 as amended: the catalog has exactly one record for each pair of a
\* product of the host's architecture and a version of it that has items
\* and, when the driver read is lxd, a combined-disk checksum; it has no
\* record for any other pair. When the loops end with no record fromJson
\* fails with EmptyManifestException and never returns an empty catalog; a
\* document without products, or a host architecture without a manifest
\* name, fails before the loops with GenericManifestException.
C21_OneRecordPerUsablePair ==
    /\ result = Success =>
         /\ products # <<>>
         /\ \A p \in Range(manifest.products) : \A v \in DOMAIN p.versions :
              Cardinality(RecordsOf(p, v)) =
                 IF /\ ArchMatches(p) /\ HasItems(p, v)
                    /\ (StoredDriver = <<"l","x","d">> => HasLxdChecksum(p, v))
                   THEN 1 ELSE 0
         /\ \A i \in DOMAIN products :
              \E p \in Range(manifest.products) :
                  p.release = products[i].release /\ products[i].version \in DOMAIN p.versions
    /\ \A i \in DOMAIN products : ArchMatches(ProductOf(products[i]))
    /\ result = EmptyManifestException <=> (parser.pc = "done" /\ parser.i > 0
                                             /\ products = <<>> /\ result.kind # "PersistentSettingsException")
    /\ result.kind = "GenericManifestException" <=>
         (parser.pc = "done" /\ (manifest.products = <<>> \/ arch_of(manifest.cpu) = ""))

C21_Witness ==
    /\ result = Success
    /\ Len(manifest.products) = 2
    /\ manifest.products[2].arch = "arm64"
    /\ DOMAIN manifest.products[1].versions = {<<"9">>, <<"1","0">>}
    /\ ~HasItems(manifest.products[1], <<"1","0">>)
    /\ Len(products) = 1 /\ products[1].version = <<"9">> /\ products[1].release = "a"


\* the two forms of a record: the lxd form has the combined-disk checksum and
\* no locations, the other form the image location and kernel / initrd paths
LxdForm(r) == r.image_location = <<>> /\ r.kernel_location = <<>> /\ r.initrd_location = <<>>
DiskForm(r) == r.kernel_location # <<>> /\ r.initrd_location # <<>>

\* C22: within one fromJson call every record has the form of one and the
\* same driver value, all the lxd form or all the disk form, also while
\* another thread runs set(driver_key, ...).
C22_OneDriverPerCatalog ==
    \/ \A i \in DOMAIN products : LxdForm(products[i])
    \/ \A i \in DOMAIN products : DiskForm(products[i])


BoolFlagKeys == {autostart_key, mounts_key}
BoolWords == {<<"t","r","u","e">>, <<"f","a","l","s","e">>}

\* C23: from backing files that hold no value for the boolean-flag keys,
\* whatever get and set calls are made and however they interleave, what is
\* persisted for the autostart key and for the privileged-mounts key is
\* nothing, "true" or "false"; no alias and no other string is stored, nor
\* handed to the store to be written.
C23_FlagsPersistedAsBoolWords ==
    /\ \A f \in Paths : \A k \in BoolFlagKeys :
          k \in DOMAIN files[f].data => files[f].data[k] \in BoolWords
    /\ \A t \in Threads :
          (handle[t].pending # <<>> /\ handle[t].pending[1] \in BoolFlagKeys)
              => handle[t].pending[2] \in BoolWords

C23_Witness ==
    \E t, u \in Threads :
        /\ t # u
        /\ Finished(t) /\ op[t] = "set" /\ arg[t] = <<"N","o","p","e">>
        /\ outcome[t].kind = "InvalidSetting"
        /\ Finished(u) /\ op[u] = "set" /\ arg[u] = <<"Y","E","S">> /\ outcome[u] = Success
        /\ files[daemon_file_path].data[mounts_key] = <<"t","r","u","e">>

====
